---- MODULE Spec2Model ----
(***************************************************************************)
(* Model of the chart assistant front end: the App component (session      *)
(* state: messages, currentChart, uploadedFile), the ApiService singleton  *)
(* (WebSocket life cycle, sendMessage, disconnect, uploadFile) and the     *)
(* FileUpload customRequest.  One action per handler; every handler runs   *)
(* to completion (single-threaded event loop).                             *)
(***************************************************************************)
EXTENDS Integers, Sequences, FiniteSets, TLC

\* ------------------------------------------------------------------ bounds
MaxMsgs     == 2    \* messages appended to the conversation log
MaxAttempts == 3    \* WebSocket objects constructed
MaxPending  == 2    \* uploads in flight at the same time

\* --------------------------------------------------------------- JS values
UNDEF == "undefined"
NULL  == "null"

\* JavaScript truthiness of a string-or-missing value (if (x), x || y, x && y)
Truthy(v) == v \notin {UNDEF, NULL, ""}

\* --------------------------------------------------------- WebSocket states
CONNECTING == "CONNECTING"
OPEN       == "OPEN"
CLOSING    == "CLOSING"
CLOSED     == "CLOSED"

\* ------------------------------------------------------------ input domains
\* what the user can have typed: text with blanks around it, and text that
\* is whitespace only
UserTexts  == {" plot monthly revenue "}
BlankTexts == {"  "}
ReplyTexts == {"reply"}
\* chart_data strings: two that decode into {data, layout}, one that is not
\* JSON, the empty string, and the field missing
GoodCharts == {"chartA", "chartB"}
ChartVals  == GoodCharts \cup {"not json", "", UNDEF}

NoObj == [isObj |-> FALSE]

\* the data member of an inbound event: missing, or {response, chart_data?}
DataVals == {NoObj} \cup
            {[isObj |-> TRUE, response |-> r, chart_data |-> c] :
                r \in ReplyTexts, c \in ChartVals}

\* wire texts: not JSON at all, or the JSON text of an object {type, data?}
PingData == [isObj |-> TRUE, response |-> "reply", chart_data |-> "chartA"]
Wires == {[valid |-> FALSE]} \cup
         {[valid |-> TRUE, json |-> [type |-> "response", data |-> d]] :
             d \in DataVals} \cup
         {[valid |-> TRUE, json |-> [type |-> "ping", data |-> d]] :
             d \in {NoObj, PingData}}

\* upload acknowledgements {success, message?, file_path?, load_result?}
\* (load_result.response is kept as summary)
Acks == {[success |-> TRUE, file_path |-> "/tmp/sales.xlsx",
          summary |-> "120 rows, 5 columns"],
         [success |-> TRUE, file_path |-> "/tmp/costs.xlsx", summary |-> UNDEF],
         [success |-> FALSE, file_path |-> UNDEF, summary |-> UNDEF]}

VARIABLES
    phase,         \* App: "new" (rendered, effect not yet run), "mounted"
                   \*      (effect ran), "unmounted" (cleanup ran: teardown,
                   \*      or the tree was removed after a render error)
    messages,      \* App state: sequence of [id, sender, text]
    currentChart,  \* App state: chart_data string or NULL
    uploadedFile,  \* App state: file path or NULL
    now,           \* the value Date.now() returned last, counted in distinct
                   \* readings (ids are only ever compared for equality)
    socks,         \* every WebSocket constructed so far: readyState by index
    ws,            \* ApiService.ws: index into socks, 0 = null
    timers,        \* pending setTimeout(connectWebSocket, 5000) callbacks
    sent,          \* frames handed to WebSocket.send, in order
    input,         \* ChatInterface state `message`: the text in the input box
    pending,       \* number of uploads in flight (axios.post not yet settled)
    lastEvt        \* the handler that ran last on the mounted App, with its
                   \* input ([op |-> "other"] after any other event)

vars == <<phase, messages, currentChart, uploadedFile, now, socks, ws, timers,
          sent, input, pending, lastEvt>>

store == <<messages, currentChart, uploadedFile>>
chan  == <<socks, ws, timers>>

\* ------------------------------------------------------------- ApiService

\* new WebSocket(WS_URL); this.ws = it; handlers installed on it
connectWebSocket(ss) == [socks |-> Append(ss, CONNECTING), ws |-> Len(ss) + 1]

\* WebSocket.close(): CONNECTING and OPEN sockets start closing, else no-op
SocketClose(st) == IF st \in {CONNECTING, OPEN} THEN CLOSING ELSE st

\* disconnect(): if (this.ws) this.ws.close()
disconnect(ss, w) == IF w # 0 THEN [ss EXCEPT ![w] = SocketClose(ss[w])] ELSE ss

\* onclose without the setTimeout
onclose_noTimer(t) == t

\* onclose that sets the timer twice
onclose_twice(t) == t + 2

\* ws.onclose: schedules one reconnection timer
onclose(t) == t + 1

\* sendMessage without the readyState test
sendMessage_noStateTest(message, ss, w, out) ==
    IF w # 0
    THEN Append(out, [sock |-> w, payload |-> [message |-> message]])
    ELSE out

\* sendMessage that hands the frame to the socket twice
sendMessage_twice(message, ss, w, out) ==
    IF w # 0 /\ ss[w] = OPEN
    THEN out \o << [sock |-> w, payload |-> [message |-> message]],
                   [sock |-> w, payload |-> [message |-> message]] >>
    ELSE out

\* sendMessage(message): transmit only when this.ws exists and is OPEN
sendMessage(message, ss, w, out) ==
    IF w # 0 /\ ss[w] = OPEN
    THEN Append(out, [sock |-> w, payload |-> [message |-> message]])
    ELSE out

Other == [op |-> "other"]

Init ==
    /\ phase = "new"
    /\ messages = << >>
    /\ currentChart = NULL
    /\ uploadedFile = NULL
    /\ now = 0
    /\ socks = << >>
    /\ ws = 0
    /\ timers = 0
    /\ sent = << >>
    /\ input = ""
    /\ pending = 0
    /\ lastEvt = Other

\* the values Date.now() can return next: the first reading is called 0, a
\* later one falls in the same millisecond as the reading before it or in a
\* later millisecond
Clock == IF messages = << >> THEN {0} ELSE {now, now + 1}

\* what lastEvt records of event e
Seen(e) == IF phase = "mounted" THEN e ELSE Other

\* App useEffect: apiService.connectWebSocket(onMessage)
Mount ==
    /\ phase = "new"
    /\ Len(socks) < MaxAttempts
    /\ phase' = "mounted"
    /\ LET c == connectWebSocket(socks) IN socks' = c.socks /\ ws' = c.ws
    /\ lastEvt' = Other
    /\ UNCHANGED <<store, now, timers, sent, input, pending>>

\* App useEffect cleanup: apiService.disconnect()
Unmount ==
    /\ phase = "mounted"
    /\ phase' = "unmounted"
    /\ socks' = disconnect(socks, ws)
    /\ input' = ""
    /\ lastEvt' = Other
    /\ UNCHANGED <<store, now, ws, timers, sent, pending>>

\* ws.onopen that transmits the user messages not transmitted so far
SocketOpen_flush(s) ==
    /\ socks[s] = CONNECTING
    /\ socks' = [socks EXCEPT ![s] = OPEN]
    /\ lastEvt' = [op |-> "other"]
    /\ sent' = IF Len(sent) < Len(SelectSeq(messages, LAMBDA x : x.sender = "user"))
               THEN Append(sent, [sock |-> s,
                                  payload |-> [message |-> "plot monthly revenue"]])
               ELSE sent
    /\ UNCHANGED <<phase, messages, currentChart, uploadedFile, now, ws, timers,
                   input, pending>>

\* handshake completes: ws.onopen (logs only)
SocketOpen(s) ==
    /\ socks[s] = CONNECTING
    /\ socks' = [socks EXCEPT ![s] = OPEN]
    /\ lastEvt' = Other
    /\ UNCHANGED <<phase, store, now, ws, timers, sent, input, pending>>

\* close event of socket s: failed attempt (onerror logs, then onclose),
\* remote close of an open socket, or completion of a close() we started
SocketClosed(s) ==
    /\ socks[s] \in {CONNECTING, OPEN, CLOSING}
    /\ socks' = [socks EXCEPT ![s] = CLOSED]
    /\ timers' = onclose(timers)
    /\ lastEvt' = Other
    /\ UNCHANGED <<phase, store, now, ws, sent, input, pending>>

\* the 5 s timer fires: this.connectWebSocket(onMessage)
Reconnect ==
    /\ timers > 0
    /\ Len(socks) < MaxAttempts
    /\ timers' = timers - 1
    /\ LET c == connectWebSocket(socks) IN socks' = c.socks /\ ws' = c.ws
    /\ lastEvt' = Other
    /\ UNCHANGED <<phase, store, now, sent, input, pending>>

\* -------------------------------------------------------------------- App

\* message texts are kept as the sequence of their pieces (a plain string is
\* one piece), so that a template literal keeps the value interpolated in it
Str(x) == <<x>>

\* the new message put in front: [{...}, ...prev]
appendMessage_prepend(prev, t, sender, text) ==
    <<[id |-> t, sender |-> sender, text |-> text]>> \o prev

\* [...prev, {id: Date.now(), sender, text, timestamp}]
appendMessage(prev, t, sender, text) ==
    Append(prev, [id |-> t, sender |-> sender, text |-> text])

\* JSON.parse(event.data): throws on text that is not JSON
JSONParse(w) == IF w.valid THEN [ok |-> TRUE, value |-> w.json] ELSE [ok |-> FALSE]

\* onMessage that keeps a chart once one is shown
onMessage_keepFirst(data, msgs, chart, t) ==
    IF data.type # "response"
    THEN [messages |-> msgs, currentChart |-> chart,
          threw |-> FALSE, renderThrew |-> FALSE]
    ELSE LET response == data.data IN
         IF ~response.isObj
         THEN [messages |-> msgs, currentChart |-> chart,
               threw |-> TRUE, renderThrew |-> TRUE]
         ELSE [messages |-> appendMessage(msgs, t, "assistant", Str(response.response)),
               currentChart |-> IF Truthy(response.chart_data) /\ chart = NULL
                                THEN response.chart_data ELSE chart,
               threw |-> FALSE, renderThrew |-> FALSE]

\* onMessage that sets the chart from every response, with or without one
onMessage_clearChart(data, msgs, chart, t) ==
    IF data.type # "response"
    THEN [messages |-> msgs, currentChart |-> chart,
          threw |-> FALSE, renderThrew |-> FALSE]
    ELSE LET response == data.data IN
         IF ~response.isObj
         THEN [messages |-> msgs, currentChart |-> chart,
               threw |-> TRUE, renderThrew |-> TRUE]
         ELSE [messages |-> appendMessage(msgs, t, "assistant", Str(response.response)),
               currentChart |-> IF Truthy(response.chart_data)
                                THEN response.chart_data ELSE NULL,
               threw |-> FALSE, renderThrew |-> FALSE]

\* onMessage without the test of data.type
onMessage_anyType(data, msgs, chart, t) ==
    LET response == data.data IN
    IF ~response.isObj
    THEN [messages |-> msgs, currentChart |-> chart,
          threw |-> TRUE, renderThrew |-> TRUE]
    ELSE [messages |-> appendMessage(msgs, t, "assistant", Str(response.response)),
          currentChart |-> IF Truthy(response.chart_data)
                           THEN response.chart_data ELSE chart,
          threw |-> FALSE, renderThrew |-> FALSE]

\* the callback App passes to connectWebSocket, followed by the render that
\* applies the queued state updates.
\*   threw:       the callback raised (uncaught in ws.onmessage)
\*   renderThrew: the queued setMessages updater raised while rendering
onMessage(data, msgs, chart, t) ==
    IF data.type # "response"
    THEN [messages |-> msgs, currentChart |-> chart,
          threw |-> FALSE, renderThrew |-> FALSE]
    ELSE LET response == data.data IN
         IF ~response.isObj
         THEN \* the updater is queued; response.chart_data raises TypeError;
              \* the updater raises again on response.response when rendered
              [messages |-> msgs, currentChart |-> chart,
               threw |-> TRUE, renderThrew |-> TRUE]
         ELSE [messages |-> appendMessage(msgs, t, "assistant", Str(response.response)),
               currentChart |-> IF Truthy(response.chart_data)
                                THEN response.chart_data ELSE chart,
               threw |-> FALSE, renderThrew |-> FALSE]

\* ws.onmessage of socket s receives wire text w; t is what Date.now()
\* returns if the handler reads it (it does when it appends a message).
\* The state setters have no effect once the App is unmounted.
Deliver(s, w, t) ==
    /\ socks[s] = OPEN
    /\ LET p == JSONParse(w)
           r == IF p.ok /\ phase = "mounted"
                THEN onMessage(p.value, messages, currentChart, t)
                ELSE [messages |-> messages, currentChart |-> currentChart,
                      threw |-> IF p.ok
                                THEN onMessage(p.value, messages, currentChart, t).threw
                                ELSE TRUE,
                      renderThrew |-> FALSE]
       IN /\ Len(r.messages) <= MaxMsgs
          /\ messages' = r.messages
          /\ now' = IF Len(r.messages) > Len(messages) THEN t ELSE now
          /\ Len(r.messages) = Len(messages) => t = now
          /\ currentChart' = r.currentChart
          \* an error raised while rendering removes the whole tree, which
          \* runs the effect cleanup
          /\ phase' = IF r.renderThrew THEN "unmounted" ELSE phase
          /\ socks' = IF r.renderThrew THEN disconnect(socks, ws) ELSE socks
          /\ input' = IF r.renderThrew THEN "" ELSE input
          /\ lastEvt' = Seen([op |-> "inbound", wire |-> w,
                              chartBefore |-> IF currentChart' # currentChart
                                              THEN currentChart ELSE NULL])
    /\ UNCHANGED <<uploadedFile, ws, timers, sent, pending>>

\* handleSendMessage that waits for pending uploads
handleSendMessage_blocked(m, t) ==
    /\ phase = "mounted"
    /\ pending = 0
    /\ Len(messages) < MaxMsgs
    /\ now' = t
    /\ messages' = Append(messages, [id |-> t, sender |-> "user", text |-> <<m>>])
    /\ sent' = sendMessage(m, socks, ws, sent)
    /\ lastEvt' = [op |-> "send", text |-> m]
    /\ UNCHANGED <<phase, currentChart, uploadedFile, socks, ws, timers, pending>>

\* handleSendMessage(message): append the user message, then sendMessage
\* (user events are handled once the mount effect has run)
handleSendMessage(m, t) ==
    /\ phase = "mounted"
    /\ Len(messages) < MaxMsgs
    /\ now' = t
    /\ messages' = appendMessage(messages, t, "user", Str(m))
    /\ sent' = sendMessage(m, socks, ws, sent)
    /\ lastEvt' = [op |-> "send", text |-> m]
    /\ UNCHANGED <<phase, currentChart, uploadedFile, chan, pending>>

\* the text handleUploadSuccess synthesizes:
\* `... ${result.load_result?.response || 'data'} ...`
UploadText(result) ==
    <<"upload ok, the file contains ",
      IF Truthy(result.summary) THEN result.summary ELSE "data",
      ". you can ask for charts now">>

\* handleUploadSuccess that leaves the summary out of the text
handleUploadSuccess_noSummary(result, msgs, t) ==
    [uploadedFile |-> result.file_path,
     messages |-> appendMessage(msgs, t, "assistant",
                    <<"upload ok, the file contains ", "data",
                      ". you can ask for charts now">>)]

\* handleUploadSuccess(result)
handleUploadSuccess(result, msgs, t) ==
    [uploadedFile |-> result.file_path,
     messages |-> appendMessage(msgs, t, "assistant", UploadText(result))]

\* customRequest after the await, with a retry in the failure branches
customRequest_retry(settled, msgs, file, t, live) ==
    IF ~settled.rejected /\ settled.ack.success
    THEN [notice |-> "success", posts |-> 0,
          messages |-> IF live THEN handleUploadSuccess(settled.ack, msgs, t).messages
                       ELSE msgs,
          uploadedFile |-> IF live
                           THEN handleUploadSuccess(settled.ack, msgs, t).uploadedFile
                           ELSE file]
    ELSE [notice |-> "error", posts |-> 1, messages |-> msgs, uploadedFile |-> file]

\* customRequest after the await: settled is how the post of uploadFile
\* ended (rejected, or resolved with an acknowledgement); live tells whether
\* the App is still mounted (its setters take effect).
\*   notice: the antd message shown; posts: further posts started
customRequest(settled, msgs, file, t, live) ==
    IF ~settled.rejected /\ settled.ack.success
    THEN [notice |-> "success", posts |-> 0,
          messages |-> IF live THEN handleUploadSuccess(settled.ack, msgs, t).messages
                       ELSE msgs,
          uploadedFile |-> IF live
                           THEN handleUploadSuccess(settled.ack, msgs, t).uploadedFile
                           ELSE file]
    ELSE \* result.success is false, or uploadFile rethrew and the catch ran
         [notice |-> "error", posts |-> 0, messages |-> msgs, uploadedFile |-> file]

\* customRequest starts: apiService.uploadFile(file) posts once and suspends
StartUpload ==
    /\ phase = "mounted"
    /\ pending < MaxPending
    /\ pending' = pending + 1
    /\ lastEvt' = Other
    /\ UNCHANGED <<phase, store, now, chan, sent, input>>

\* the post of one pending upload resolves with ack: rest of customRequest
UploadResolved(ack, t) ==
    /\ pending > 0
    /\ LET r == customRequest([rejected |-> FALSE, ack |-> ack], messages,
                              uploadedFile, t, phase = "mounted") IN
       /\ Len(r.messages) <= MaxMsgs
       /\ pending' = pending - 1 + r.posts
       /\ messages' = r.messages
       /\ uploadedFile' = r.uploadedFile
       /\ now' = IF Len(r.messages) > Len(messages) THEN t ELSE now
       /\ Len(r.messages) = Len(messages) => t = now
       /\ lastEvt' = Seen([op |-> "uploaded", ack |-> ack, notice |-> r.notice])
    /\ UNCHANGED <<phase, currentChart, chan, sent, input>>

\* the post of one pending upload rejects: uploadFile rethrows, customRequest
\* catches
UploadRejected ==
    /\ pending > 0
    /\ LET r == customRequest([rejected |-> TRUE], messages, uploadedFile, now,
                              phase = "mounted") IN
       /\ pending' = pending - 1 + r.posts
       /\ messages' = r.messages
       /\ uploadedFile' = r.uploadedFile
       /\ lastEvt' = Seen([op |-> "uploadFailed", notice |-> r.notice])
    /\ UNCHANGED <<phase, currentChart, now, chan, sent, input>>

\* ----------------------------------------------------------- ChatInterface

\* String.prototype.trim: the text without the white space at its two ends
Trim(x) ==
    CASE x = " plot monthly revenue " -> "plot monthly revenue"
      [] x = "  " -> ""
      [] OTHER -> x

\* onChange of the text area: setMessage(e.target.value)
onChange(v) ==
    /\ phase = "mounted"
    /\ v # input
    /\ input' = v
    /\ lastEvt' = Other
    /\ UNCHANGED <<phase, store, now, chan, sent, pending>>

\* handleSend without the test of message.trim()
handleSend_noTrimTest(t) ==
    /\ handleSendMessage(input, t)
    /\ input' = ""

\* handleSend (send button, or Enter through handleKeyPress): forward the
\* text and clear the box, or do nothing when the text trims to nothing
handleSend(t) ==
    IF Truthy(Trim(input))
    THEN /\ handleSendMessage(input, t)
         /\ input' = ""
    ELSE /\ phase = "mounted"
         /\ lastEvt' = [op |-> "blank"]
         /\ UNCHANGED <<phase, store, now, chan, sent, input, pending>>

\* the user types text m into the empty box and submits it, in one step
Submit(m, t) ==
    /\ input = ""
    /\ Truthy(Trim(m))
    /\ handleSendMessage(m, t)
    /\ input' = ""

Keys == {"Enter", "a"}

\* handleKeyPress(e): Enter without Shift submits; any other key is left to
\* the text area
handleKeyPress(key, shiftKey, t) ==
    IF key = "Enter" /\ ~shiftKey
    THEN handleSend(t)
    ELSE /\ phase = "mounted"
         /\ lastEvt' = Other
         /\ UNCHANGED <<phase, store, now, chan, sent, input, pending>>

\* ------------------------------------------------------------ ChartDisplay

\* an object {chart_data: "chartA"}; no wire text of the model carries one,
\* chart_data being a string on the wire
WrappedChart == "{chart_data: chartA}"

\* property access v.name: the wrapped object has the member chart_data, a
\* string (every other chart value of the model) has no member of that name
Member(v, name) ==
    IF v = WrappedChart /\ name = "chart_data" THEN "chartA" ELSE UNDEF

\* JSON.parse of a chart_data string: the plot specification, or a throw
ParseChart(c) ==
    IF c \in GoodCharts
    THEN [ok |-> TRUE, data |-> <<c, "data">>, layout |-> <<c, "layout">>]
    ELSE [ok |-> FALSE]

Nothing == [plot |-> FALSE]

\* ChartDisplay({chartData}): what the component renders
ChartDisplay(chartData) ==
    IF ~Truthy(chartData) \/ ~Truthy(Member(chartData, "chart_data"))
    THEN Nothing
    ELSE LET plotData == ParseChart(Member(chartData, "chart_data")) IN
         IF plotData.ok
         THEN [plot |-> TRUE, data |-> plotData.data, layout |-> plotData.layout]
         ELSE Nothing

\* App render: {currentChart && <ChartDisplay chartData={currentChart} />}
ChartSection == IF Truthy(currentChart) THEN ChartDisplay(currentChart) ELSE Nothing

Next ==
    \/ Mount
    \/ Unmount
    \/ \E s \in 1..Len(socks) : SocketOpen(s)
    \/ \E s \in 1..Len(socks) : SocketClosed(s)
    \/ Reconnect
    \/ \E s \in 1..Len(socks), w \in Wires, t \in Clock : Deliver(s, w, t)
    \/ \E m \in UserTexts, t \in Clock : Submit(m, t)
    \/ StartUpload
    \/ \E ack \in Acks, t \in Clock : UploadResolved(ack, t)
    \/ UploadRejected

Spec == Init /\ [][Next]_vars

\* the chat input on its own: typing, the send button and the keys, with
\* the life cycle of the component and of the channel
ChatNext ==
    \/ Mount
    \/ Unmount
    \/ \E s \in 1..Len(socks) : SocketOpen(s)
    \/ \E s \in 1..Len(socks) : SocketClosed(s)
    \/ Reconnect
    \/ \E v \in {""} \cup BlankTexts \cup UserTexts : onChange(v)
    \/ \E t \in Clock : handleSend(t)
    \/ \E key \in Keys, shiftKey \in BOOLEAN, t \in Clock : handleKeyPress(key, shiftKey, t)

ChatSpec == Init /\ [][ChatNext]_vars

\* the channel under the scheduling the event loop guarantees: a timer that
\* stays pending fires
LiveSpec == Init /\ [][Next]_vars /\ WF_vars(Reconnect)

\* ----------------------------------------------------- reading the events

\* the App component is rendered: its state setters take effect
Live == phase = "mounted"

IsInbound(e)   == e.op = "inbound"
IsInvalid(e)   == IsInbound(e) /\ ~e.wire.valid
IsParsed(e)    == IsInbound(e) /\ e.wire.valid
IsResponse(e)  == IsParsed(e) /\ e.wire.json.type = "response"
\* a "response" event without its data object
IsNoData(e)    == IsResponse(e) /\ ~e.wire.json.data.isObj
\* a "response" event with its data object
IsReply(e)     == IsResponse(e) /\ e.wire.json.data.isObj
ChartOf(e)     == e.wire.json.data.chart_data
ReplyOf(e)     == e.wire.json.data.response
IsSend(e)      == e.op = "send"
IsUploadOk(e)  == e.op = "uploaded" /\ e.ack.success

\* this.ws is missing or not OPEN
NotOpen == ws = 0 \/ socks[ws] # OPEN

\* chart_data decodes into a plot specification {data, layout}
Decodes(c) == c \in GoodCharts

Last(q) == q[Len(q)]

\* ------------------------------------------------------------------ claims

\* C1: after an explicit disconnect() no further connection attempt occurs
\* (no new WebSocket is constructed once the cleanup has run).
C1_NoAttemptAfterDisconnect ==
    [][phase = "unmounted" => Len(socks') = Len(socks)]_vars

\* C2: a "response" event whose chart_data is present but does not decode
\* leaves currentChart as it was and only appends the textual reply.
C2_BadChartKeepsChart ==
    [][(IsReply(lastEvt') /\ ChartOf(lastEvt') # UNDEF
            /\ ~Decodes(ChartOf(lastEvt')) /\ phase = "mounted")
        => /\ currentChart' = currentChart
           /\ messages' = Append(messages, [id |-> now', sender |-> "assistant",
                                            text |-> Str(ReplyOf(lastEvt'))])]_vars

\* C3: every unexpected close (the App still mounted, so not caused by
\* disconnect()) schedules exactly one reconnection timer, each timer makes
\* exactly one attempt, and under fairness of the timer the close is followed
\* by a new connection attempt, again after every later failure (up to the
\* bound on constructed sockets).
C3_ReconnectAfterUnexpectedClose ==
    /\ [][\A s \in 1..Len(socks) :
            (phase = "mounted" /\ socks[s] # CLOSED /\ socks'[s] = CLOSED)
                => timers' = timers + 1 /\ Len(socks') = Len(socks)]_vars
    /\ [][timers' < timers
            => timers' = timers - 1 /\ Len(socks') = Len(socks) + 1
               /\ Last(socks') = CONNECTING]_vars
    /\ \A k \in 1..(MaxAttempts - 1) :
            (phase = "mounted" /\ Len(socks) = k /\ socks[k] = CLOSED)
                ~> (Len(socks) > k /\ socks[k + 1] = CONNECTING)

\* C3 witness: two sockets closed unexpectedly one after the other, and the
\* reconnection attempt that follows the second close is under way
C3_Witness ==
    /\ phase = "mounted"
    /\ Len(socks) = 3
    /\ socks[1] = CLOSED /\ socks[2] = CLOSED /\ socks[3] = CONNECTING
    /\ timers = 0

\* C4: all messages of the conversation log have pairwise distinct ids.
C4_DistinctIds ==
    \A i, j \in 1..Len(messages) : i # j => messages[i].id # messages[j].id

\* C5: a malformed inbound payload (not JSON, or a "response" event without
\* its data object) changes nothing in the session state and does not stop
\* the orchestrator (the App stays mounted).
C5_MalformedDropped ==
    [][((IsInvalid(lastEvt') \/ IsNoData(lastEvt')) /\ phase = "mounted")
        => /\ UNCHANGED <<messages, currentChart, uploadedFile>>
           /\ phase' = "mounted"]_vars

\* the events that produce a message
Producing(e) == IsSend(e) \/ IsUploadOk(e) \/ IsReply(e)

\* C6: every step extends the log as a prefix (earlier messages keep their
\* position, id, sender and text), by exactly one message when the step is
\* a message-producing action (user send, successful upload, inbound
\* "response" with its data) and by none otherwise.
C6_AppendOnly ==
    [][/\ Len(messages') >= Len(messages)
       /\ SubSeq(messages', 1, Len(messages)) = messages
       /\ Len(messages') = Len(messages)
                           + (IF Live /\ Producing(lastEvt') THEN 1 ELSE 0)]_vars

\* C6 witness: a log of two messages of different senders, the second just
\* appended by an inbound response
C6_Witness ==
    /\ Len(messages) = 2
    /\ messages[1].sender = "user"
    /\ messages[2].sender = "assistant"
    /\ IsReply(lastEvt)

C8_SendWhileNotOpen ==
    [][(IsSend(lastEvt') /\ NotOpen)
        => /\ messages' = Append(messages, [id |-> now', sender |-> "user",
                                            text |-> Str(lastEvt'.text)])
           /\ sent' = sent]_vars

\* C8 witness: a message was sent while the socket was closing or closed
\* and nothing was transmitted
C8_Witness ==
    /\ IsSend(lastEvt)
    /\ ws # 0 /\ socks[ws] \in {CLOSED, CONNECTING}
    /\ Len(messages) = 1
    /\ sent = << >>

\* C9: an inbound event of a type other than "response", with or without a
\* data member, changes no session state and does not stop the App.
C9_OtherKindsIgnored ==
    [][(IsParsed(lastEvt') /\ ~IsResponse(lastEvt'))
        => UNCHANGED <<messages, currentChart, uploadedFile, phase>>]_vars

\* C9 witness: a "ping" event carrying a data member was handled while the
\* App was mounted and showed nothing yet
C9_Witness ==
    /\ phase = "mounted"
    /\ IsParsed(lastEvt) /\ lastEvt.wire.json.type = "ping"
    /\ lastEvt.wire.json.data.isObj
    /\ messages = << >> /\ currentChart = NULL

\* some piece of text t is x
Contains(t, x) == \E i \in 1..Len(t) : t[i] = x

\* C10: a successful upload sets uploadedFile to the acknowledgement's file
\* path and appends exactly one assistant message whose text contains the
\* acknowledgement's summary (when it has one); currentChart is unchanged.
C10_UploadSuccess ==
    [][(IsUploadOk(lastEvt') /\ Live)
        => /\ uploadedFile' = lastEvt'.ack.file_path
           /\ Len(messages') = Len(messages) + 1
           /\ SubSeq(messages', 1, Len(messages)) = messages
           /\ Last(messages').sender = "assistant"
           /\ Last(messages').id = now'
           /\ (lastEvt'.ack.summary # UNDEF
                  => Contains(Last(messages').text, lastEvt'.ack.summary))
           /\ currentChart' = currentChart]_vars

\* C10 witness: the upload of spec P5 has completed
C10_Witness ==
    /\ IsUploadOk(lastEvt)
    /\ lastEvt.ack.file_path = "/tmp/sales.xlsx"
    /\ uploadedFile = "/tmp/sales.xlsx"
    /\ Len(messages) = 1
    /\ messages[1].sender = "assistant"
    /\ Contains(messages[1].text, "120 rows, 5 columns")

\* an upload that failed: the post was rejected, or the acknowledgement
\* carries success = false
IsUploadFail(e) == e.op = "uploadFailed" \/ (e.op = "uploaded" /\ ~e.ack.success)

\* C11: a failed upload (transport failure, or success flag false) leaves
\* messages, uploadedFile and currentChart as they were, shows an error
\* notice, and starts no further post: the one post that failed is settled
\* and nothing replaces it.
C11_UploadFailure ==
    [][IsUploadFail(lastEvt')
        => /\ UNCHANGED <<messages, uploadedFile, currentChart>>
           /\ lastEvt'.notice = "error"
           /\ pending' = pending - 1]_vars

\* C11 witness: an acknowledgement with success = false arrived after an
\* earlier upload had succeeded; the session still shows the earlier upload
C11_Witness ==
    /\ lastEvt.op = "uploaded" /\ ~lastEvt.ack.success
    /\ lastEvt.notice = "error"
    /\ uploadedFile = "/tmp/sales.xlsx"
    /\ Len(messages) = 1
    /\ pending = 0

\* C12: a user send of m while the channel is open appends the user message
\* and transmits exactly one frame {message: m} on the current socket
\* this.ws; the append is the same as when nothing is transmitted (C8).
C12_SendWhileOpen ==
    [][(IsSend(lastEvt') /\ ~NotOpen)
        => /\ messages' = Append(messages, [id |-> now', sender |-> "user",
                                            text |-> Str(lastEvt'.text)])
           /\ sent' = Append(sent, [sock |-> ws,
                                    payload |-> [message |-> lastEvt'.text]])
           /\ ws' = ws]_vars

\* C12 witness: one message was sent on the open socket after a reconnection
C12_Witness ==
    /\ IsSend(lastEvt)
    /\ ws = 2 /\ socks[ws] = OPEN
    /\ Len(messages) = 1
    /\ sent = <<[sock |-> 2, payload |-> [message |-> lastEvt.text]]>>

\* the user messages of the log
UserMsgs == SelectSeq(messages, LAMBDA x : x.sender = "user")

\* C14: no outbound queue: a frame is transmitted only in the step of a user
\* send made while the channel is open, and it is that send's message; no
\* other step (a reconnection, an open, an inbound event) transmits, so a
\* message sent while the channel was not open is never transmitted.
C14_NoRetransmission ==
    /\ [][sent' # sent
            => /\ IsSend(lastEvt') /\ ~NotOpen
               /\ sent' = Append(sent, [sock |-> ws,
                                        payload |-> [message |-> lastEvt'.text]])]_vars
    /\ [](Len(sent) <= Len(UserMsgs))

\* C14 witness: a message was sent while the channel was not open, the
\* channel has reconnected and is open again, and nothing was transmitted
C14_Witness ==
    /\ phase = "mounted"
    /\ Len(UserMsgs) = 1
    /\ sent = << >>
    /\ Len(socks) >= 2 /\ socks[ws] = OPEN

\* C13: whenever currentChart holds a chart_data string that decodes into
\* {data, layout}, the chart section renders a plot with that data and
\* layout.
C13_ChartRendered ==
    (phase = "mounted" /\ ParseChart(currentChart).ok)
        => /\ ChartSection.plot
           /\ ChartSection.data = ParseChart(currentChart).data
           /\ ChartSection.layout = ParseChart(currentChart).layout

\* the message the event e appends when it reads the clock as t
EventMsg(e, t) ==
    IF IsSend(e) THEN [id |-> t, sender |-> "user", text |-> Str(e.text)]
    ELSE IF IsReply(e) THEN [id |-> t, sender |-> "assistant", text |-> Str(ReplyOf(e))]
    ELSE [id |-> t, sender |-> "assistant", text |-> UploadText(e.ack)]

\* C15: the log is in processing order: every message-producing event (user
\* send, upload completion, inbound response, on whichever socket) puts its
\* own message at the end of the log as it is when the event is processed,
\* and the log changes in no other step.
C15_ProcessingOrder ==
    /\ [][(Live /\ Producing(lastEvt'))
            => messages' = Append(messages, EventMsg(lastEvt', now'))]_vars
    /\ [][messages' # messages => Live /\ Producing(lastEvt')]_vars

\* C15 witness: after a reconnection, a user message and then the
\* confirmation of an upload, in the order they were processed
C15_Witness ==
    /\ Len(socks) >= 2
    /\ Len(messages) = 2
    /\ messages[1].sender = "user"
    /\ IsUploadOk(lastEvt)
    /\ messages[2] = EventMsg(lastEvt, now)

\* C16: while an upload is in flight the user can send, an inbound response
\* on an open socket is applied, and another upload can be started; every
\* successful completion appends exactly its own confirmation and sets
\* uploadedFile to its own file path, so the upload that completes last
\* decides uploadedFile.
C16_PendingUploadBlocksNothing ==
    /\ []((phase = "mounted" /\ pending >= 1)
            => /\ (Len(messages) < MaxMsgs
                    => ENABLED (\E m \in UserTexts, t \in Clock : Submit(m, t)))
               /\ (pending < MaxPending => ENABLED StartUpload)
               /\ \A s \in 1..Len(socks) :
                    (socks[s] = OPEN /\ Len(messages) < MaxMsgs)
                        => ENABLED (\E w \in Wires, t \in Clock :
                                        Deliver(s, w, t) /\ messages' # messages))
    /\ [][(IsUploadOk(lastEvt') /\ Live)
            => /\ uploadedFile' = lastEvt'.ack.file_path
               /\ messages' = Append(messages, EventMsg(lastEvt', now'))
               /\ pending' = pending - 1]_vars

\* C16 witness: of two overlapping uploads the second to complete has just
\* succeeded after the first: two confirmations, uploadedFile is the path of
\* the later completion
C16_Witness ==
    /\ IsUploadOk(lastEvt)
    /\ Len(messages) = 2
    /\ Contains(messages[1].text, "120 rows, 5 columns")
    /\ messages[2].text = UploadText(lastEvt.ack)
    /\ lastEvt.ack.file_path = "/tmp/costs.xlsx"
    /\ uploadedFile = "/tmp/costs.xlsx"
    /\ pending = 0

\* C17: a "response" event without chart_data appends its assistant message
\* and leaves currentChart as it was; a user send and an upload completion
\* (successful or failed) leave currentChart as it was.
C17_ChartFrame ==
    [][/\ (IsReply(lastEvt') /\ ChartOf(lastEvt') = UNDEF /\ Live)
            => /\ currentChart' = currentChart
               /\ messages' = Append(messages, EventMsg(lastEvt', now'))
       /\ (IsSend(lastEvt') \/ IsUploadOk(lastEvt') \/ IsUploadFail(lastEvt'))
            => currentChart' = currentChart]_vars

\* C17 witness: a chart was shown, then a response without chart_data was
\* processed; the chart is still current
C17_Witness ==
    /\ phase = "mounted"
    /\ IsReply(lastEvt) /\ ChartOf(lastEvt) = UNDEF
    /\ currentChart = "chartA"
    /\ Len(messages) = 2

\* the sockets that are not closed
LiveSocks == {s \in 1..Len(socks) : socks[s] # CLOSED}

\* C18: after the one connect of the mount effect and before any
\* disconnect, there is exactly one live socket (and it is this.ws) or
\* exactly one pending reconnection timer, never both and never two.
C18_OneConnection ==
    phase = "mounted"
        => /\ Cardinality(LiveSocks) + timers = 1
           /\ LiveSocks \subseteq {ws}
           /\ \A s \in LiveSocks : socks[s] \in {CONNECTING, OPEN}

\* C18 witness: the second socket has closed too and one timer is pending
C18_Witness ==
    /\ phase = "mounted"
    /\ Len(socks) = 2
    /\ LiveSocks = {}
    /\ timers = 1

\* C19: a submit (send button, or Enter without Shift) of text that is empty
\* or whitespace only appends no message, transmits nothing and leaves the
\* input text as it is; a submit of any other text hands that text, as typed
\* and not trimmed, to handleSendMessage once (one message, at most one
\* frame, both with the text as typed) and clears the input.
C19_SubmitFilter ==
    [][/\ lastEvt'.op = "blank"
            => /\ ~Truthy(Trim(input))
               /\ UNCHANGED <<messages, sent, input, currentChart, uploadedFile>>
       /\ IsSend(lastEvt')
            => /\ Truthy(Trim(input))
               /\ lastEvt'.text = input
               /\ messages' = Append(messages, [id |-> now', sender |-> "user",
                                                text |-> Str(input)])
               /\ sent' = IF socks[ws] = OPEN
                          THEN Append(sent, [sock |-> ws,
                                             payload |-> [message |-> input]])
                          ELSE sent
               /\ input' = ""]_vars

\* C19 witness: text with blanks around it was submitted and went out as
\* typed; then whitespace was typed and submitted, and is still in the box
C19_Witness ==
    /\ lastEvt.op = "blank"
    /\ input \in BlankTexts
    /\ Len(messages) = 1
    /\ messages[1].text = Str(" plot monthly revenue ")
    /\ Len(sent) = 1
    /\ sent[1].payload.message = " plot monthly revenue "

====
